---- MODULE Spec2Model ----
(***************************************************************************)
(* SecureCloudX: the hash-chained ledger (modules/blockchain.py), its      *)
(* persistence in the record store (modules/database.py) and the worker    *)
(* start-up that loads, validates and repairs it (app/main.py), with the   *)
(* routes of app/main.py that report health, dump the ledger, and upload,  *)
(* share and download files (modules/aes_encryption.py, ecc_crypto.py).    *)
(*                                                                         *)
(* Abstractions.  A SHA-256 digest is modelled as the serialization it is  *)
(* computed over (collision freedom): a sequence of integers.  Changing    *)
(* one character of a stored digest gives a digest no computation yields.  *)
(* Payload dictionaries are small integers; the Genesis message is 0.      *)
(* Timestamps are small integers; a PostgreSQL REAL column keeps 24 bits   *)
(* of a float, modelled as dropping the lowest bit of the timestamp.       *)
(***************************************************************************)
EXTENDS Integers, Sequences, FiniteSets, TLC

VARIABLES
    is_postgres,    \* Database.is_postgres: DATABASE_URL is set
    render,         \* os.getenv('RENDER') is set
    db,             \* rows of table blockchain_blocks (shared by the workers)
    chain_file,     \* the fallback file chain.json (shared by the workers)
    pc,             \* per worker: position in startup_event / serving
    chain,          \* per worker: Blockchain.chain
    lock_acquired,  \* per worker: startup_event's lock_acquired
    repairing,      \* per worker: the constructor runs inside the repair branch
    origin,         \* per worker: how the constructor obtained the chain
    ret,            \* per worker: outcome of the last add_block call
    tampered,       \* which field of a persisted row was modified out of band
    restarts,       \* number of worker processes that have ended
    held,           \* the chain the last ended process held in memory
    put,            \* the save_blockchain_block call being repeated
    released,       \* per worker: startup_event called release_blockchain_lock
    files,          \* rows of table files (shared by the workers)
    file_shares,    \* rows of table file_shares (shared by the workers)
    resp,           \* the last HTTP response a worker returned
    advisory_lock,  \* the worker whose database session holds advisory lock 123456789
    call            \* the last call of a function of aes_encryption.py or ecc_crypto.py

vars == <<is_postgres, render, db, chain_file, pc, chain, lock_acquired,
          repairing, origin, ret, tampered, restarts, held, put,
         released, files, file_shares, resp, advisory_lock, call>>

(***************************** bounds **************************************)
Workers == {"w1", "w2"}
MaxChain == 3
MaxRestarts == 1

\* time.time(): one value a 4-byte float holds exactly and one it does not
Timestamps == {0, 1}
\* payload dictionaries: the Genesis message, key/share records, an altered record
GenesisData == <<0>>
Payloads == {<<1>>}
TamperedData == <<2>>

(***************************** hashing *************************************)
\* previous_hash='0' of the Genesis block
Sentinel == <<>>

\* one character of a hex digest changed
FlipChar(h) == <<-1>> \o h

\* Block.calculate_hash: sha256(json.dumps({index,timestamp,data,previous_hash}, sort_keys=True))
calculate_hash(index, timestamp, data, previous_hash) ==
    <<index, timestamp>> \o data \o previous_hash

\* Block.__init__
Block(index, timestamp, data, previous_hash) ==
    [index |-> index, timestamp |-> timestamp, data |-> data,
     previous_hash |-> previous_hash,
     hash |-> calculate_hash(index, timestamp, data, previous_hash)]

NoBlock ==
    [index |-> -1, timestamp |-> 0, data |-> <<>>,
     previous_hash |-> Sentinel, hash |-> Sentinel]

\* Block.to_dict
to_dict(b) == b

\* Block.from_dict accepting every dictionary
from_dict_never_raises(d) == FALSE

\* Block.from_dict raises ValueError when the stored hash is not the recomputed one
from_dict_raises(d) ==
    calculate_hash(d.index, d.timestamp, d.data, d.previous_hash) # d.hash

\* Block.from_dict (when it does not raise)
from_dict(d) == Block(d.index, d.timestamp, d.data, d.previous_hash)

(***************************** record store ********************************)
\* json.dumps / json.loads of a payload dictionary (block_data TEXT)
json_dumps(data) == <<-2>> \o data
json_loads(text) == Tail(text)

\* a text that is not JSON; json.loads raises JSONDecodeError on it
MalformedText == <<-6>>
json_loads_raises(text) == text = <<>> \/ Head(text) # -2

\* block_timestamp REAL: 8-byte float in SQLite, 4-byte float in PostgreSQL
ToReal(pg, timestamp) == IF pg THEN (timestamp \div 2) * 2 ELSE timestamp

Row(pg, block_index, timestamp, data, previous_hash, block_hash) ==
    [block_index |-> block_index,
     block_timestamp |-> ToReal(pg, timestamp),
     block_data |-> json_dumps(data),
     previous_hash |-> previous_hash,
     block_hash |-> block_hash]

\* the positions of the rows with this block_index
RowsWithIndex(store, block_index) ==
    {i \in 1..Len(store) : store[i].block_index = block_index}

\* a plain INSERT into a table without the UNIQUE constraint
save_blockchain_block_insert(store, pg, block_index, timestamp, data, previous_hash, block_hash) ==
    Append(store, Row(pg, block_index, timestamp, data, previous_hash, block_hash))

\* Database.save_blockchain_block: INSERT ... ON CONFLICT (block_index) DO UPDATE SET ...
save_blockchain_block(store, pg, block_index, timestamp, data, previous_hash, block_hash) ==
    LET row == Row(pg, block_index, timestamp, data, previous_hash, block_hash)
    IN  IF RowsWithIndex(store, block_index) # {}
        THEN [i \in 1..Len(store) |->
                 IF store[i].block_index = block_index THEN row ELSE store[i]]
        ELSE Append(store, row)

\* the table without position i
RemoveAt(store, i) ==
    [j \in 1..(Len(store) - 1) |-> IF j < i THEN store[j] ELSE store[j + 1]]

RECURSIVE OrderByIndex(_)
\* SELECT * FROM blockchain_blocks ORDER BY block_index ASC
OrderByIndex(store) ==
    IF store = <<>> THEN <<>>
    ELSE LET first == CHOOSE i \in 1..Len(store) :
                          \A j \in 1..Len(store) :
                              \/ store[i].block_index < store[j].block_index
                              \/ store[i].block_index = store[j].block_index /\ i <= j
         IN  <<store[first]>> \o OrderByIndex(RemoveAt(store, first))

\* Database.load_blockchain_blocks
load_blockchain_blocks(store) ==
    LET rows == OrderByIndex(store)
    IN  [i \in 1..Len(rows) |->
            [rows[i] EXCEPT !.block_data = json_loads(rows[i].block_data)]]

\* Database.load_blockchain_blocks raises: json.loads of a row's block_data
load_blockchain_blocks_raises(store) ==
    \E i \in 1..Len(store) : json_loads_raises(store[i].block_data)

\* Blockchain.load_chain_from_database, its return value: False when there is
\* no row, and when load_blockchain_blocks raises (except Exception)
load_chain_from_database(store) ==
    ~load_blockchain_blocks_raises(store) /\ Len(store) > 0

\* Database.clear_blockchain_blocks
clear_blockchain_blocks(store) == <<>>

(***************************** ledger **************************************)
\* Blockchain.get_latest_block
get_latest_block(c) == c[Len(c)]

\* Blockchain.validate_chain (positions are 1-based here, 0-based in the code)
validate_chain(c) ==
    \A i \in 2..Len(c) :
        /\ c[i].hash = calculate_hash(c[i].index, c[i].timestamp, c[i].data, c[i].previous_hash)
        /\ c[i].previous_hash = c[i-1].hash

\* add_block linking the new block to the hash before the tail's
new_block_stale_link(c, data, timestamp) ==
    Block(Len(c), timestamp, data, get_latest_block(c).previous_hash)

\* the block add_block builds
new_block(c, data, timestamp) ==
    Block(Len(c), timestamp, data, get_latest_block(c).hash)

\* create_genesis_block numbering the first block 1
genesis_block_index_one(timestamp) == Block(1, timestamp, GenesisData, Sentinel)

\* the block create_genesis_block builds
genesis_block(timestamp) == Block(0, timestamp, GenesisData, Sentinel)

\* the chain load_chain_from_database builds from the rows it read
hydrate(blocks_data) ==
    [i \in 1..Len(blocks_data) |->
        [index |-> blocks_data[i].block_index,
         timestamp |-> blocks_data[i].block_timestamp,
         data |-> blocks_data[i].block_data,
         previous_hash |-> blocks_data[i].previous_hash,
         hash |-> blocks_data[i].block_hash]]

\* Blockchain.save_chain_to_json
save_chain_to_json(c) ==
    [exists |-> TRUE, blocks |-> [i \in 1..Len(c) |-> to_dict(c[i])]]

NoFile == [exists |-> FALSE, blocks |-> <<>>]

\* SELECT pg_try_advisory_lock(123456789) in the session of worker w: the
\* lock is granted when no other session holds it
pg_try_advisory_lock(holder, w) == holder \in {"none", w}

\* cursor.fetchone() of a RealDictCursor: the row is keyed by column name
fetchone(granted) == [pg_try_advisory_lock |-> granted]

\* row[key] of a RealDictRow: KeyError unless key is a column name
RowKeys == {"pg_try_advisory_lock"}
KeyError(key) == key \notin RowKeys

\* Database.acquire_blockchain_lock after the query on PostgreSQL:
\* `acquired = result[0] if result else False`; the KeyError of result[0] is
\* caught by `except Exception` and the call returns False
acquired_from(result) == IF KeyError("0") THEN FALSE ELSE result.pg_try_advisory_lock

\* Database.acquire_blockchain_lock: True without PostgreSQL; with PostgreSQL
\* what the query of this worker's session yields
acquire_blockchain_lock(pg, granted) == IF ~pg THEN TRUE ELSE acquired_from(fetchone(granted))

(***************************** state machine *******************************)
NoRet == [kind |-> "none", block |-> NoBlock]
NoHeld == [chain |-> <<>>, fresh |-> FALSE, persisted |-> FALSE]
NoResp == [route |-> "none", status |-> 0, worker |-> "none", body |-> [detail |-> "none"]]
NoCall == [op |-> "none"]
NoPut == [phase |-> "idle", args |-> <<0, 0, <<>>, <<>>, <<>>>>, after |-> <<>>]

Init ==
    /\ is_postgres \in BOOLEAN
    /\ render \in BOOLEAN
    /\ db = <<>>
    /\ chain_file = NoFile
    /\ pc = [w \in Workers |-> "down"]
    /\ chain = [w \in Workers |-> <<>>]
    /\ lock_acquired = [w \in Workers |-> FALSE]
    /\ repairing = [w \in Workers |-> FALSE]
    /\ origin = [w \in Workers |-> "none"]
    /\ ret = [w \in Workers |-> NoRet]
    /\ tampered = "no"
    /\ restarts = 0
    /\ held = NoHeld
    /\ put = NoPut
    /\ released = [w \in Workers |-> FALSE]
    /\ files = <<>>
    /\ file_shares = <<>>
    /\ resp = NoResp
    /\ advisory_lock = "none"
    /\ call = NoCall

\* startup_event up to the lock acquisition; on PostgreSQL
\* acquire_blockchain_lock opens a connection and runs pg_try_advisory_lock
Start(w) ==
    /\ pc[w] = "down"
    /\ IF is_postgres
       THEN /\ advisory_lock' = IF pg_try_advisory_lock(advisory_lock, w) THEN w ELSE advisory_lock
            /\ pc' = [pc EXCEPT ![w] = "fetched"]
            /\ UNCHANGED lock_acquired
       ELSE /\ lock_acquired' = [lock_acquired EXCEPT ![w] = acquire_blockchain_lock(is_postgres, FALSE)]
            /\ pc' = [pc EXCEPT ![w] = IF lock_acquired'[w] THEN "construct" ELSE "sleep"]
            /\ UNCHANGED advisory_lock
    /\ UNCHANGED <<is_postgres, render, db, chain_file, chain, repairing, origin, ret, tampered, restarts, held, put,
                   released, files, file_shares, resp, call>>

\* acquire_blockchain_lock on PostgreSQL from fetchone() to its return: the
\* connection is closed on the way out, which ends the session and its lock
AcquireReturn(w) ==
    /\ pc[w] = "fetched"
    /\ lock_acquired' = [lock_acquired EXCEPT ![w] =
                             acquire_blockchain_lock(is_postgres, advisory_lock = w)]
    /\ advisory_lock' = IF advisory_lock = w THEN "none" ELSE advisory_lock
    /\ pc' = [pc EXCEPT ![w] = IF lock_acquired'[w] THEN "construct" ELSE "sleep"]
    /\ UNCHANGED <<is_postgres, render, db, chain_file, chain, repairing, origin, ret, tampered, restarts, held, put,
                   released, files, file_shares, resp, call>>

\* a wait that lasts until no session holds the advisory lock
SleepUntilUnlocked(w) ==
    /\ pc[w] = "sleep"
    /\ advisory_lock = "none"
    /\ pc' = [pc EXCEPT ![w] = "construct"]
    /\ UNCHANGED <<is_postgres, render, db, chain_file, chain, lock_acquired,
                   repairing, origin, ret, tampered, restarts, held, put,
                   released, files, file_shares, resp, advisory_lock, call>>

\* await asyncio.sleep(3)
Sleep(w) ==
    /\ pc[w] = "sleep"
    /\ pc' = [pc EXCEPT ![w] = "construct"]
    /\ UNCHANGED <<is_postgres, render, db, chain_file, chain, lock_acquired,
                   repairing, origin, ret, tampered, restarts, held, put,
                   released, files, file_shares, resp, advisory_lock, call>>

AfterConstruct(w) == IF repairing[w] THEN "release" ELSE "validate"

\* Blockchain.__init__: load_chain_from_database, else load_chain_from_json
Construct(w) ==
    /\ pc[w] = "construct"
    /\ LET blocks_data == load_blockchain_blocks(db)
           file_blocks == chain_file.blocks
           file_raises == \E i \in 1..Len(file_blocks) : from_dict_raises(file_blocks[i])
           file_chain  == [i \in 1..Len(file_blocks) |-> from_dict(file_blocks[i])]
       IN  IF load_chain_from_database(db)
           THEN /\ chain' = [chain EXCEPT ![w] = hydrate(blocks_data)]
                /\ origin' = [origin EXCEPT ![w] = "db"]
                /\ pc' = [pc EXCEPT ![w] = AfterConstruct(w)]
           ELSE IF ~chain_file.exists \/ file_raises
           THEN /\ chain' = [chain EXCEPT ![w] = <<>>]
                /\ origin' = [origin EXCEPT ![w] =
                                 IF chain_file.exists THEN "rejected" ELSE "fresh"]
                /\ pc' = [pc EXCEPT ![w] = "genesis"]
           ELSE IF ~validate_chain(file_chain)
           THEN /\ chain' = [chain EXCEPT ![w] = file_chain]
                /\ origin' = [origin EXCEPT ![w] = "rejected"]
                /\ pc' = [pc EXCEPT ![w] = "genesis"]
           ELSE /\ chain' = [chain EXCEPT ![w] = file_chain]
                /\ origin' = [origin EXCEPT ![w] = "file"]
                /\ pc' = [pc EXCEPT ![w] = AfterConstruct(w)]
    /\ ret' = [ret EXCEPT ![w] = NoRet]
    /\ UNCHANGED <<is_postgres, render, db, chain_file, lock_acquired, repairing, tampered, restarts, held, put,
                   released, files, file_shares, resp, advisory_lock, call>>

\* Blockchain.create_genesis_block
CreateGenesis(w) ==
    /\ pc[w] = "genesis"
    /\ \E timestamp \in Timestamps :
        /\ chain' = [chain EXCEPT ![w] = Append(chain[w], genesis_block(timestamp))]
        /\ chain_file' = save_chain_to_json(chain'[w])
    /\ pc' = [pc EXCEPT ![w] = AfterConstruct(w)]
    /\ UNCHANGED <<is_postgres, render, db, lock_acquired, repairing, origin, ret, tampered, restarts, held, put,
                   released, files, file_shares, resp, advisory_lock, call>>

\* startup_event: validate the loaded chain and choose the branch
Validate(w) ==
    /\ pc[w] = "validate"
    /\ pc' = [pc EXCEPT ![w] =
                IF Len(chain[w]) > 0 /\ ~validate_chain(chain[w])
                THEN IF render /\ lock_acquired[w] THEN "clear"
                     ELSE IF ~render THEN "clear"
                     ELSE "release"
                ELSE "release"]
    /\ UNCHANGED <<is_postgres, render, db, chain_file, chain, lock_acquired,
                   repairing, origin, ret, tampered, restarts, held, put,
                   released, files, file_shares, resp, advisory_lock, call>>

\* startup_event: db.clear_blockchain_blocks()
RepairClear(w) ==
    /\ pc[w] = "clear"
    /\ db' = clear_blockchain_blocks(db)
    /\ pc' = [pc EXCEPT ![w] = IF render THEN "remove" ELSE "construct"]
    /\ repairing' = [repairing EXCEPT ![w] = TRUE]
    /\ UNCHANGED <<is_postgres, render, chain_file, chain, lock_acquired, origin, ret, tampered, restarts, held, put,
                   released, files, file_shares, resp, advisory_lock, call>>

\* startup_event: if os.path.exists(chain_path): os.remove(chain_path)
RepairRemove(w) ==
    /\ pc[w] = "remove"
    /\ chain_file' = NoFile
    /\ pc' = [pc EXCEPT ![w] = "construct"]
    /\ UNCHANGED <<is_postgres, render, db, chain, lock_acquired, repairing, origin, ret, tampered, restarts, held, put,
                   released, files, file_shares, resp, advisory_lock, call>>

\* a finally clause that is skipped when the try block raised
release_unless_raised(acquired, raised) == acquired /\ ~raised

\* startup_event's finally clause: if lock_acquired: db.release_blockchain_lock()
finally_release(acquired, raised) == acquired

\* startup_event: the finally clause and the end of start-up
Release(w) ==
    /\ pc[w] = "release"
    /\ pc' = [pc EXCEPT ![w] = "ready"]
    /\ repairing' = [repairing EXCEPT ![w] = FALSE]
    /\ released' = [released EXCEPT ![w] = finally_release(lock_acquired[w], FALSE)]
    /\ UNCHANGED <<is_postgres, render, db, chain_file, chain, lock_acquired, origin, ret, tampered, restarts, held, put,
                   files, file_shares, resp, advisory_lock, call>>

\* create_genesis_block when save_chain_to_json raises (the directory of the
\* fallback file cannot be written): the exception leaves the try block
CreateGenesisRaises(w) ==
    /\ pc[w] = "genesis"
    /\ \E timestamp \in Timestamps :
        chain' = [chain EXCEPT ![w] = Append(chain[w], genesis_block(timestamp))]
    /\ pc' = [pc EXCEPT ![w] = "unwind"]
    /\ UNCHANGED <<is_postgres, render, db, chain_file, lock_acquired, repairing, origin, ret,
                   tampered, restarts, held, put, released, files, file_shares, resp, advisory_lock, call>>

\* the repair when clear_blockchain_blocks or os.remove raises
RepairRaises(w) ==
    /\ pc[w] \in {"clear", "remove"}
    /\ pc' = [pc EXCEPT ![w] = "unwind"]
    /\ UNCHANGED <<is_postgres, render, db, chain_file, chain, lock_acquired, repairing, origin,
                   ret, tampered, restarts, held, put, released, files, file_shares, resp, advisory_lock, call>>

\* startup_event: the finally clause on an exception, then the re-raise that
\* keeps the application from starting
Unwind(w) ==
    /\ pc[w] = "unwind"
    /\ pc' = [pc EXCEPT ![w] = "failed"]
    /\ repairing' = [repairing EXCEPT ![w] = FALSE]
    /\ released' = [released EXCEPT ![w] = finally_release(lock_acquired[w], TRUE)]
    /\ UNCHANGED <<is_postgres, render, db, chain_file, chain, lock_acquired, origin, ret,
                   tampered, restarts, held, put, files, file_shares, resp, advisory_lock, call>>

\* Blockchain.add_block with a database
AddBlock(w) ==
    /\ pc[w] = "ready"
    /\ Len(chain[w]) < MaxChain
    /\ \E data \in Payloads, timestamp \in Timestamps :
        LET b == new_block(chain[w], data, timestamp)
        IN  /\ chain' = [chain EXCEPT ![w] = Append(chain[w], b)]
            /\ db' = save_blockchain_block(db, is_postgres, b.index, b.timestamp,
                                           b.data, b.previous_hash, b.hash)
            /\ ret' = [ret EXCEPT ![w] = [kind |-> "block", block |-> b]]
    /\ UNCHANGED <<is_postgres, render, chain_file, pc, lock_acquired, repairing, origin,
                   tampered, restarts, held, put,
                   released, files, file_shares, resp, advisory_lock, call>>

\* Blockchain.add_block when save_blockchain_block raises (the backend is unavailable)
AddBlockRaises(w) ==
    /\ pc[w] = "ready"
    /\ Len(chain[w]) < MaxChain
    /\ \E data \in Payloads, timestamp \in Timestamps :
        LET b == new_block(chain[w], data, timestamp)
        IN  chain' = [chain EXCEPT ![w] = Append(chain[w], b)]
    /\ ret' = [ret EXCEPT ![w] = [kind |-> "raised", block |-> NoBlock]]
    /\ UNCHANGED <<is_postgres, render, db, chain_file, pc, lock_acquired, repairing, origin,
                   tampered, restarts, held, put,
                   released, files, file_shares, resp, advisory_lock, call>>

\* the row add_block wrote for block b is in the table
Persisted(b) ==
    \E i \in 1..Len(db) :
        db[i] = Row(is_postgres, b.index, b.timestamp, b.data, b.previous_hash, b.hash)

\* the worker process ends; its in-memory ledger is gone
Terminate(w) ==
    /\ pc[w] = "ready"
    /\ restarts < MaxRestarts
    /\ restarts' = restarts + 1
    /\ pc' = [pc EXCEPT ![w] = "down"]
    /\ chain' = [chain EXCEPT ![w] = <<>>]
    /\ lock_acquired' = [lock_acquired EXCEPT ![w] = FALSE]
    /\ origin' = [origin EXCEPT ![w] = "none"]
    /\ ret' = [ret EXCEPT ![w] = NoRet]
    /\ released' = [released EXCEPT ![w] = FALSE]
    /\ held' = [chain |-> chain[w],
                fresh |-> origin[w] = "fresh",
                persisted |-> \A i \in 2..Len(chain[w]) : Persisted(chain[w][i])]
    /\ UNCHANGED <<is_postgres, render, db, chain_file, repairing, tampered, put,
                   files, file_shares, resp, advisory_lock, call>>

\* a persisted row's payload is altered out of band, its stored hash left as written
TamperData ==
    /\ tampered = "no"
    /\ \E i \in 1..Len(db) :
        db' = [db EXCEPT ![i].block_data = json_dumps(TamperedData)]
    /\ tampered' = "data"
    /\ UNCHANGED <<is_postgres, render, chain_file, pc, chain, lock_acquired, repairing,
                   origin, ret, restarts, held, put,
                   released, files, file_shares, resp, advisory_lock, call>>

\* a persisted row's previous_hash is altered out of band
TamperPreviousHash ==
    /\ tampered = "no"
    /\ \E i \in 1..Len(db) :
        db' = [db EXCEPT ![i].previous_hash = FlipChar(db[i].previous_hash)]
    /\ tampered' = "previous_hash"
    /\ UNCHANGED <<is_postgres, render, chain_file, pc, chain, lock_acquired, repairing,
                   origin, ret, restarts, held, put,
                   released, files, file_shares, resp, advisory_lock, call>>

\* one character of a persisted row's stored hash is changed out of band
TamperHash ==
    /\ tampered = "no"
    /\ \E i \in 1..Len(db) :
        db' = [db EXCEPT ![i].block_hash = FlipChar(db[i].block_hash)]
    /\ tampered' = "hash"
    /\ UNCHANGED <<is_postgres, render, chain_file, pc, chain, lock_acquired, repairing,
                   origin, ret, restarts, held, put,
                   released, files, file_shares, resp, advisory_lock, call>>

\* a persisted row's payload text is replaced out of band by text that is not JSON
TamperMalformed ==
    /\ tampered = "no"
    /\ \E i \in 1..Len(db) :
        db' = [db EXCEPT ![i].block_data = MalformedText]
    /\ tampered' = "malformed"
    /\ UNCHANGED <<is_postgres, render, chain_file, pc, chain, lock_acquired, repairing,
                   origin, ret, restarts, held, put,
                   released, files, file_shares, resp, advisory_lock, call>>

\* what one worker process does
Worker(w) ==
    \/ Start(w)
    \/ AcquireReturn(w)
    \/ Sleep(w)
    \/ Construct(w)
    \/ CreateGenesis(w)
    \/ Validate(w)
    \/ RepairClear(w)
    \/ RepairRemove(w)
    \/ Release(w)
    \/ AddBlock(w)
    \/ Terminate(w)

\* out-of-band modification of the persisted rows
Tamper ==
    \/ TamperData
    \/ TamperPreviousHash
    \/ TamperHash

\* one worker process at a time over a backend that can be tampered with
Next == Worker("w1") \/ Tamper

Spec == Init /\ [][Next]_vars

\* one worker process at a time over a backend whose rows can be altered out
\* of band, also into rows that cannot be parsed
NextHydrate == Worker("w1") \/ Tamper \/ TamperMalformed

SpecHydrate == Init /\ [][NextHydrate]_vars

\* several worker processes sharing the backend
NextFleet == \E w \in Workers : Worker(w)

SpecFleet == Init /\ [][NextFleet]_vars

\* an exception inside the try block of startup_event
Raises(w) ==
    \/ CreateGenesisRaises(w)
    \/ RepairRaises(w)
    \/ Unwind(w)

\* one worker process at a time whose start-up can raise, over a backend that
\* can be tampered with
NextStartupRaises == Worker("w1") \/ Raises("w1") \/ Tamper

SpecStartupRaises == Init /\ [][NextStartupRaises]_vars

\* one worker process at a time over a backend that can be unavailable or tampered with
NextFaulty == Worker("w1") \/ AddBlockRaises("w1") \/ Tamper

SpecFaulty == Init /\ [][NextFaulty]_vars

\* startup_event of worker w, step by step
Boot(w) ==
    \/ Start(w)
    \/ AcquireReturn(w)
    \/ Sleep(w)
    \/ Construct(w)
    \/ CreateGenesis(w)
    \/ Validate(w)
    \/ RepairClear(w)
    \/ RepairRemove(w)
    \/ Release(w)

\* a worker process that serves and restarts, a second worker process starting
\* at any moment, over a backend that can be tampered with
NextStartup == Worker("w1") \/ Boot("w2") \/ Tamper

SpecStartup == Init /\ [][NextStartup]_vars

\* several worker processes sharing the backend; worker w1 is scheduled: its
\* process runs startup_event to the end, each step of which returns (the lock
\* query does not wait, the sleep is 3 seconds).  Nothing is assumed about the
\* other worker, which may stop anywhere, also while its session holds the lock
SpecFleetFair == Init /\ [][NextFleet]_vars /\ WF_vars(Boot("w1"))

(***************************** HTTP layer **********************************)
\* the GET routes of the ledger in the order app.get registers them
Routes ==
    <<[path |-> "/health", endpoint |-> "health_check"],
      [path |-> "/chain", endpoint |-> "get_blockchain"],
      [path |-> "/health", endpoint |-> "health_check_container"]>>

\* the router hands a request to the first registered route whose path matches
endpoint_of(path) ==
    LET first == CHOOSE i \in 1..Len(Routes) :
                     /\ Routes[i].path = path
                     /\ \A j \in 1..(i - 1) : Routes[j].path # path
    IN  Routes[first].endpoint

\* health_check, the route registered first ("for monitoring")
health_check(w) ==
    [status |-> "healthy",
     database |-> IF is_postgres THEN "PostgreSQL" ELSE "SQLite",
     blockchain_blocks |-> Len(chain[w])]

\* health_check, the route registered last ("for container orchestration")
health_check_container(w) ==
    [status |-> "healthy",
     blockchain_blocks |-> Len(chain[w]),
     blockchain_valid |-> validate_chain(chain[w])]

\* GET /health served by worker w
Health(w) ==
    /\ pc[w] = "ready"
    /\ resp' = [route |-> "/health", status |-> 200, worker |-> w,
                body |-> IF endpoint_of("/health") = "health_check"
                         THEN health_check(w)
                         ELSE health_check_container(w)]
    /\ UNCHANGED <<is_postgres, render, db, chain_file, pc, chain, lock_acquired, repairing,
                   origin, ret, tampered, restarts, held, put, released, files, file_shares,
                   advisory_lock, call>>

\* one worker process at a time that answers health checks, over a backend
\* that can be tampered with
NextHealth == Worker("w1") \/ Health("w1") \/ Tamper

SpecHealth == Init /\ [][NextHealth]_vars

(***************************** cryptography *******************************)
\* Numbers small enough to enumerate stand for keys and bytes.  The curve is
\* a group of prime order (the squares modulo a small prime, as P-256 has
\* prime order); HKDF is injective; AES in CFB mode adds a key stream; the AES
\* block permutation under a key adds the key to every byte of the block.
GroupPrime == 23
GroupGenerator == 4
GroupOrder == 11
KeySpace == 32
ByteSpace == 32
BlockSize == 2

Min(a, b) == IF a < b THEN a ELSE b

RECURSIVE Power(_, _)
\* scalar multiplication on the curve
Power(base, exponent) ==
    IF exponent = 0 THEN 1 ELSE (base * Power(base, exponent - 1)) % GroupPrime

\* private_key.public_key()
public_key(private_key) == Power(GroupGenerator, private_key)

\* an exchange that yields the caller's own public key
exchange_own_key(private_key, peer_public_key) == public_key(private_key)

\* private_key.exchange(ec.ECDH(), peer_public_key)
exchange(private_key, peer_public_key) == Power(peer_public_key, private_key)

\* a key derivation that ignores the shared secret
derive_constant(shared_secret) == 0

\* HKDF(SHA256, length=32, info=b'aes-key-encryption').derive(shared_secret)
derive(shared_secret) == shared_secret

\* base64.b64encode / base64.b64decode of a 32-byte key
b64encode(value) == <<-3, value>>
b64decode(text) == text[2]

\* base64.b64encode / base64.b64decode of a byte string
b64encode_bytes(bytes) == <<-3>> \o bytes
b64decode_bytes(text) == Tail(text)

\* public_bytes(PEM, SubjectPublicKeyInfo) / serialization.load_pem_public_key
public_bytes(point) == <<-5, point>>
load_pem_public_key(pem) == pem[2]

\* Cipher(algorithms.AES(derived_key), modes.CFB(iv)): encryptor / decryptor
cfb_encrypt(aes_key, derived_key, iv) == (aes_key + derived_key + iv) % KeySpace
cfb_decrypt(encrypted_aes_key, derived_key, iv) ==
    (encrypted_aes_key + 2 * KeySpace - derived_key - iv) % KeySpace

\* ecc_crypto.encrypt_aes_key_with_ecc with the ephemeral key and IV it drew:
\* the package is the length of the ephemeral public key (4 bytes, one number
\* here), the key, the IV (16 bytes, one number here) and the ciphertext
encrypt_aes_key_with_ecc(aes_key, recipient_public_key, ephemeral_private_key, iv) ==
    LET shared_secret == exchange(ephemeral_private_key, recipient_public_key)
        derived_key == derive(shared_secret)
        encrypted_aes_key == cfb_encrypt(aes_key, derived_key, iv)
        ephemeral_public_pem == public_bytes(public_key(ephemeral_private_key))
        package == <<Len(ephemeral_public_pem)>> \o ephemeral_public_pem
                       \o <<iv>> \o <<encrypted_aes_key>>
    IN  b64encode_bytes(package)

\* ecc_crypto.decrypt_aes_key_with_ecc
decrypt_aes_key_with_ecc(encrypted_package, private_key) ==
    LET package == b64decode_bytes(encrypted_package)
        ephemeral_key_length == package[1]
        ephemeral_public_pem == SubSeq(package, 2, 1 + ephemeral_key_length)
        iv == package[2 + ephemeral_key_length]
        encrypted_aes_key == package[3 + ephemeral_key_length]
        ephemeral_public_key == load_pem_public_key(ephemeral_public_pem)
        shared_secret == exchange(private_key, ephemeral_public_key)
        derived_key == derive(shared_secret)
    IN  cfb_decrypt(encrypted_aes_key, derived_key, iv)

\* padding that adds nothing to a payload that already fills its blocks
pad_unless_aligned(plaintext) ==
    LET n == (BlockSize - (Len(plaintext) % BlockSize)) % BlockSize
    IN  plaintext \o [i \in 1..n |-> n]

\* Crypto.Util.Padding.pad(plaintext, AES.block_size), PKCS7
pad(plaintext) ==
    LET n == BlockSize - (Len(plaintext) % BlockSize)
    IN  plaintext \o [i \in 1..n |-> n]

\* Crypto.Util.Padding.unpad raises ValueError: the length is not a positive
\* multiple of the block size, or the last byte is not a padding length, or
\* the bytes it counts are not all equal to it
unpad_raises(padded) ==
    LET len == Len(padded)
    IN  \/ len = 0
        \/ len % BlockSize # 0
        \/ LET n == padded[len]
           IN  \/ n < 1
               \/ n > Min(BlockSize, len)
               \/ \E i \in (len - n + 1)..len : padded[i] # n

\* Crypto.Util.Padding.unpad (when it does not raise)
unpad(padded) == SubSeq(padded, 1, Len(padded) - padded[Len(padded)])

RECURSIVE cbc_encrypt(_, _, _)
\* AES.new(key, AES.MODE_CBC, iv).encrypt: each block is added to the block
\* before it (the IV for the first) and permuted under the key
cbc_encrypt(padded, key, iv) ==
    IF padded = <<>> THEN <<>>
    ELSE LET block == [j \in 1..BlockSize |-> (padded[j] + iv[j] + key) % ByteSpace]
         IN  block \o cbc_encrypt(SubSeq(padded, BlockSize + 1, Len(padded)), key, block)

RECURSIVE cbc_decrypt(_, _, _)
\* AES.new(key, AES.MODE_CBC, iv).decrypt
cbc_decrypt(ciphertext, key, iv) ==
    IF ciphertext = <<>> THEN <<>>
    ELSE LET block == [j \in 1..BlockSize |->
                          (ciphertext[j] + 2 * ByteSpace - key - iv[j]) % ByteSpace]
         IN  block \o cbc_decrypt(SubSeq(ciphertext, BlockSize + 1, Len(ciphertext)), key,
                                  SubSeq(ciphertext, 1, BlockSize))

\* aes_encryption.encrypt_file on a file holding plaintext, with the IV it drew
encrypt_file(plaintext, key, iv) ==
    [encrypted_data |-> b64encode_bytes(cbc_encrypt(pad(plaintext), key, iv)),
     iv |-> b64encode_bytes(iv)]

\* aes_encryption.decrypt_file
decrypt_file_raises(encrypted_data, key, iv) ==
    unpad_raises(cbc_decrypt(b64decode_bytes(encrypted_data), key, b64decode_bytes(iv)))
decrypt_file(encrypted_data, key, iv) ==
    unpad(cbc_decrypt(b64decode_bytes(encrypted_data), key, b64decode_bytes(iv)))

\* the users table: the owner, the recipient and a third user, each with the
\* key pair register_user generated
Owner == 1
Recipient == 2
ThirdParty == 3
UserIds == {Owner, Recipient, ThirdParty}
ecc_private_key(user_id) == 3 * user_id + 1
ecc_public_key(user_id) == public_key(ecc_private_key(user_id))

\* what upload_file and share_file draw at random, what is uploaded, and the
\* time.time() of the add_block calls of the requests
AesKeys == {1, 2}
EphemeralKeys == {2}
Ivs == {0}
FileIvs == {<<0, 0>>}
Contents == {<<1>>}
NoContent == <<-1>>
RequestTimes == {1}
Filename == 7
MaxFiles == 2

(***************************** files and shares ***************************)
\* upload_file's block_data: owner_id, filename, aes_key, timestamp
KeyRecord(owner_id, filename, aes_key_b64, timestamp) ==
    <<3, owner_id, filename>> \o aes_key_b64 \o <<timestamp>>

\* share_file's share_block_data: action 'share', file_id, owner_id,
\* recipient_id, encrypted_aes_key, filename
ShareRecord(file_id, owner_id, recipient_id, encrypted_aes_key, filename) ==
    <<4, file_id, owner_id, recipient_id>> \o encrypted_aes_key \o <<filename>>

\* 'aes_key' in block.data; block.data['aes_key'] raises KeyError otherwise
has_aes_key(data) == Len(data) = 6 /\ data[1] = 3
aes_key_of(data) == SubSeq(data, 4, 5)

\* Blockchain.get_block_by_index
get_block_by_index(c, index) ==
    IF 0 <= index /\ index < Len(c) THEN c[index + 1] ELSE NoBlock

\* Blockchain.get_chain_as_dict
get_chain_as_dict(c) == [i \in 1..Len(c) |-> to_dict(c[i])]

\* Database.get_file_share
NoShare == [file_id |-> 0, owner_id |-> 0, recipient_id |-> 0,
            encrypted_aes_key |-> <<>>, block_index |-> -1]
get_file_share(shares, file_id, recipient_id) ==
    LET found == {i \in 1..Len(shares) :
                     shares[i].file_id = file_id /\ shares[i].recipient_id = recipient_id}
    IN  IF found = {} THEN NoShare
        ELSE shares[CHOOSE i \in found : \A j \in found : i <= j]

\* a response of /upload, /share or /download
Answer(route, w, status, file_id, user_id, block_index, content) ==
    [route |-> route, status |-> status, worker |-> w,
     body |-> [file_id |-> file_id, user_id |-> user_id,
               block_index |-> block_index, content |-> content]]

\* POST /upload served by worker w; the row of table files keeps, for the
\* comparison with later downloads, the bytes that were uploaded
Upload(w) ==
    /\ pc[w] = "ready"
    /\ Len(chain[w]) < MaxChain
    /\ Len(files) < MaxFiles
    /\ \E content \in Contents, aes_key \in AesKeys, iv \in FileIvs, timestamp \in RequestTimes :
        LET encrypted_result == encrypt_file(content, aes_key, iv)
            block_data == KeyRecord(Owner, Filename, b64encode(aes_key),
                                    get_latest_block(chain[w]).timestamp)
            b == new_block(chain[w], block_data, timestamp)
            file_id == Len(files) + 1
        IN  /\ chain' = [chain EXCEPT ![w] = Append(chain[w], b)]
            /\ db' = save_blockchain_block(db, is_postgres, b.index, b.timestamp,
                                           b.data, b.previous_hash, b.hash)
            /\ ret' = [ret EXCEPT ![w] = [kind |-> "block", block |-> b]]
            /\ files' = Append(files,
                   [id |-> file_id, owner_id |-> Owner, filename |-> Filename,
                    block_index |-> b.index,
                    encrypted_data |-> encrypted_result.encrypted_data,
                    iv |-> encrypted_result.iv,
                    content |-> content])
            /\ resp' = Answer("/upload", w, 200, file_id, Owner, b.index, NoContent)
    /\ UNCHANGED <<is_postgres, render, chain_file, pc, lock_acquired, repairing, origin,
                   tampered, restarts, held, put, released, file_shares, advisory_lock, call>>

\* POST /share served by worker w: the owner shares a file with the recipient
Share(w) ==
    /\ pc[w] = "ready"
    /\ \E file_id \in 1..Len(files) :
        LET file_record == files[file_id]
            existing_share == get_file_share(file_shares, file_id, Recipient)
            block == get_block_by_index(chain[w], file_record.block_index)
        IN  IF existing_share # NoShare
            THEN /\ resp' = Answer("/share", w, 400, file_id, Recipient, -1, NoContent)
                 /\ UNCHANGED <<chain, db, ret, file_shares>>
            ELSE IF block = NoBlock \/ ~has_aes_key(block.data)
            THEN /\ resp' = Answer("/share", w, 500, file_id, Recipient, -1, NoContent)
                 /\ UNCHANGED <<chain, db, ret, file_shares>>
            ELSE /\ Len(chain[w]) < MaxChain
                 /\ \E ephemeral_private_key \in EphemeralKeys, iv \in Ivs,
                       timestamp \in RequestTimes :
                     LET aes_key == b64decode(aes_key_of(block.data))
                         encrypted_aes_key ==
                             encrypt_aes_key_with_ecc(aes_key, ecc_public_key(Recipient),
                                                      ephemeral_private_key, iv)
                         share_block_data ==
                             ShareRecord(file_id, Owner, Recipient, encrypted_aes_key,
                                         file_record.filename)
                         b == new_block(chain[w], share_block_data, timestamp)
                     IN  /\ chain' = [chain EXCEPT ![w] = Append(chain[w], b)]
                         /\ db' = save_blockchain_block(db, is_postgres, b.index, b.timestamp,
                                                        b.data, b.previous_hash, b.hash)
                         /\ ret' = [ret EXCEPT ![w] = [kind |-> "block", block |-> b]]
                         /\ file_shares' = Append(file_shares,
                                [file_id |-> file_id, owner_id |-> Owner,
                                 recipient_id |-> Recipient,
                                 encrypted_aes_key |-> encrypted_aes_key,
                                 block_index |-> b.index])
                         /\ resp' = Answer("/share", w, 200, file_id, Recipient, b.index, NoContent)
    /\ UNCHANGED <<is_postgres, render, chain_file, pc, lock_acquired, repairing, origin,
                   tampered, restarts, held, put, released, files, advisory_lock, call>>

\* GET /download/{file_id} served by worker w for an authenticated user
Download(w) ==
    /\ pc[w] = "ready"
    /\ \E user_id \in UserIds, file_id \in 1..Len(files) :
        LET file_record == files[file_id]
            share == get_file_share(file_shares, file_id, user_id)
            block == get_block_by_index(chain[w], file_record.block_index)
            denied == file_record.owner_id # user_id /\ share = NoShare
            no_key == file_record.owner_id = user_id
                          /\ (block = NoBlock \/ ~has_aes_key(block.data))
            aes_key == IF file_record.owner_id # user_id
                       THEN decrypt_aes_key_with_ecc(share.encrypted_aes_key,
                                                     ecc_private_key(user_id))
                       ELSE b64decode(aes_key_of(block.data))
        IN  resp' =
                IF denied THEN Answer("/download", w, 403, file_id, user_id, -1, NoContent)
                ELSE IF no_key THEN Answer("/download", w, 500, file_id, user_id, -1, NoContent)
                ELSE IF decrypt_file_raises(file_record.encrypted_data, aes_key, file_record.iv)
                THEN Answer("/download", w, 500, file_id, user_id, -1, NoContent)
                ELSE Answer("/download", w, 200, file_id, user_id, -1,
                            decrypt_file(file_record.encrypted_data, aes_key, file_record.iv))
    /\ UNCHANGED <<is_postgres, render, db, chain_file, pc, chain, lock_acquired, repairing,
                   origin, ret, tampered, restarts, held, put, released, files, file_shares,
                   advisory_lock, call>>

\* GET /chain served by worker w; the route takes no credentials
GetChain(w) ==
    /\ pc[w] = "ready"
    /\ resp' = [route |-> "/chain", status |-> 200, worker |-> w,
                body |-> [chain |-> get_chain_as_dict(chain[w]),
                          length |-> Len(chain[w]),
                          is_valid |-> validate_chain(chain[w])]]
    /\ UNCHANGED <<is_postgres, render, db, chain_file, pc, chain, lock_acquired, repairing,
                   origin, ret, tampered, restarts, held, put, released, files, file_shares,
                   advisory_lock, call>>

\* the requests of the file API
Api(w) ==
    \/ Upload(w)
    \/ Share(w)
    \/ Download(w)
    \/ GetChain(w)

\* several worker processes that start and serve the file API over one
\* backend, a row of which can be altered out of band
NextApi == (\E w \in Workers : Boot(w) \/ Api(w)) \/ TamperPreviousHash

SpecApi == Init /\ [][NextApi]_vars

\* a handler whose except clause would restore the state it started from
except_Exception_restores(before, after) == before

\* the except clause of upload_file and of share_file: it raises
\* HTTPException(500) and touches neither the ledger nor the table
except_Exception(before, after) == after

\* POST /upload served by worker w when db.create_file raises after add_block
\* has returned: no row of table files is written, the answer is 500
UploadRaises(w) ==
    /\ pc[w] = "ready"
    /\ Len(chain[w]) < MaxChain
    /\ \E aes_key \in AesKeys, timestamp \in RequestTimes :
        LET block_data == KeyRecord(Owner, Filename, b64encode(aes_key),
                                    get_latest_block(chain[w]).timestamp)
            b == new_block(chain[w], block_data, timestamp)
        IN  /\ chain' = [chain EXCEPT ![w] =
                             except_Exception(chain[w], Append(chain[w], b))]
            /\ db' = except_Exception(db,
                         save_blockchain_block(db, is_postgres, b.index, b.timestamp,
                                               b.data, b.previous_hash, b.hash))
            /\ ret' = [ret EXCEPT ![w] = [kind |-> "block", block |-> b]]
            /\ resp' = Answer("/upload", w, 500, 0, Owner, -1, NoContent)
    /\ UNCHANGED <<is_postgres, render, chain_file, pc, lock_acquired, repairing, origin,
                   tampered, restarts, held, put, released, files, file_shares,
                   advisory_lock, call>>

\* POST /share served by worker w when db.create_file_share raises after
\* add_block has returned: no row of table file_shares is written, the answer
\* is 500
ShareRaises(w) ==
    /\ pc[w] = "ready"
    /\ Len(chain[w]) < MaxChain
    /\ \E file_id \in 1..Len(files) :
        LET file_record == files[file_id]
            existing_share == get_file_share(file_shares, file_id, Recipient)
            block == get_block_by_index(chain[w], file_record.block_index)
        IN  /\ existing_share = NoShare
            /\ block # NoBlock
            /\ has_aes_key(block.data)
            /\ \E ephemeral_private_key \in EphemeralKeys, iv \in Ivs,
                  timestamp \in RequestTimes :
                LET aes_key == b64decode(aes_key_of(block.data))
                    encrypted_aes_key ==
                        encrypt_aes_key_with_ecc(aes_key, ecc_public_key(Recipient),
                                                 ephemeral_private_key, iv)
                    share_block_data ==
                        ShareRecord(file_id, Owner, Recipient, encrypted_aes_key,
                                    file_record.filename)
                    b == new_block(chain[w], share_block_data, timestamp)
                IN  /\ chain' = [chain EXCEPT ![w] =
                                     except_Exception(chain[w], Append(chain[w], b))]
                    /\ db' = except_Exception(db,
                                 save_blockchain_block(db, is_postgres, b.index,
                                                       b.timestamp, b.data,
                                                       b.previous_hash, b.hash))
                    /\ ret' = [ret EXCEPT ![w] = [kind |-> "block", block |-> b]]
                    /\ resp' = Answer("/share", w, 500, file_id, Recipient, -1, NoContent)
    /\ UNCHANGED <<is_postgres, render, chain_file, pc, lock_acquired, repairing, origin,
                   tampered, restarts, held, put, released, files, file_shares,
                   advisory_lock, call>>

\* one worker process that starts on an empty backend and serves uploads and
\* shares, some of which fail after the append
NextAbandon ==
    \/ Start("w1")
    \/ AcquireReturn("w1")
    \/ Sleep("w1")
    \/ Construct("w1")
    \/ CreateGenesis("w1")
    \/ Validate("w1")
    \/ Release("w1")
    \/ Upload("w1")
    \/ Share("w1")
    \/ UploadRaises("w1")
    \/ ShareRaises("w1")

SpecAbandon == Init /\ [][NextAbandon]_vars

\* the arguments of a save_blockchain_block call
PutIndexes == 0..(MaxChain - 1)
PutHashes(block_index, timestamp, data) ==
    {calculate_hash(block_index, timestamp, data, Sentinel),
     FlipChar(calculate_hash(block_index, timestamp, data, Sentinel))}

\* Database.save_blockchain_block called with some arguments
PutBlock ==
    /\ put.phase \in {"idle", "twice"}
    /\ \E block_index \in PutIndexes, timestamp \in Timestamps, data \in Payloads :
       \E block_hash \in PutHashes(block_index, timestamp, data) :
        /\ db' = save_blockchain_block(db, is_postgres, block_index, timestamp, data,
                                       Sentinel, block_hash)
        /\ put' = [phase |-> "once",
                   args |-> <<block_index, timestamp, data, Sentinel, block_hash>>,
                   after |-> db']
    /\ UNCHANGED <<is_postgres, render, chain_file, pc, chain, lock_acquired, repairing,
                   origin, ret, tampered, restarts, held,
                   released, files, file_shares, resp, advisory_lock, call>>

\* Database.save_blockchain_block called again with the same arguments
PutBlockAgain ==
    /\ put.phase = "once"
    /\ db' = save_blockchain_block(db, is_postgres, put.args[1], put.args[2], put.args[3],
                                   put.args[4], put.args[5])
    /\ put' = [put EXCEPT !.phase = "twice"]
    /\ UNCHANGED <<is_postgres, render, chain_file, pc, chain, lock_acquired, repairing,
                   origin, ret, tampered, restarts, held,
                   released, files, file_shares, resp, advisory_lock, call>>

\* the record store alone, driven by repeated calls
NextStore == PutBlock \/ PutBlockAgain

SpecStore == Init /\ [][NextStore]_vars

(***************************** ledger without a database *******************)

\* Blockchain(chain_file) with db=None in a new process: load_chain_from_json;
\* when a block of the file makes Block.from_dict raise, self.chain stays
\* empty; when validate_chain() fails, self.chain stays set to the file's
\* blocks; both return False and create_genesis_block follows
BlockchainInit(w) ==
    /\ pc[w] = "down"
    /\ LET file_blocks == chain_file.blocks
           file_raises == \E i \in 1..Len(file_blocks) : from_dict_raises(file_blocks[i])
           file_chain  == [i \in 1..Len(file_blocks) |-> from_dict(file_blocks[i])]
       IN  IF ~chain_file.exists \/ file_raises
           THEN /\ chain' = [chain EXCEPT ![w] = <<>>]
                /\ origin' = [origin EXCEPT ![w] =
                                 IF chain_file.exists THEN "rejected" ELSE "fresh"]
                /\ pc' = [pc EXCEPT ![w] = "init_genesis"]
           ELSE IF ~validate_chain(file_chain)
           THEN /\ chain' = [chain EXCEPT ![w] = file_chain]
                /\ origin' = [origin EXCEPT ![w] = "rejected"]
                /\ pc' = [pc EXCEPT ![w] = "init_genesis"]
           ELSE /\ chain' = [chain EXCEPT ![w] = file_chain]
                /\ origin' = [origin EXCEPT ![w] = "file"]
                /\ pc' = [pc EXCEPT ![w] = "constructed"]
    /\ ret' = [ret EXCEPT ![w] = NoRet]
    /\ UNCHANGED <<is_postgres, render, db, chain_file, lock_acquired, repairing, tampered,
                   restarts, held, put, released, files, file_shares, resp, advisory_lock, call>>

\* Blockchain.create_genesis_block at the end of that constructor
InitGenesis(w) ==
    /\ pc[w] = "init_genesis"
    /\ \E timestamp \in Timestamps :
        /\ chain' = [chain EXCEPT ![w] = Append(chain[w], genesis_block(timestamp))]
        /\ chain_file' = save_chain_to_json(chain'[w])
    /\ pc' = [pc EXCEPT ![w] = "constructed"]
    /\ UNCHANGED <<is_postgres, render, db, lock_acquired, repairing, origin, ret, tampered,
                   restarts, held, put, released, files, file_shares, resp, advisory_lock, call>>

\* Blockchain.add_block without a database: the chain is written to the file
AddBlockFile(w) ==
    /\ pc[w] = "constructed"
    /\ Len(chain[w]) < MaxChain
    /\ \E data \in Payloads, timestamp \in Timestamps :
        LET b == new_block(chain[w], data, timestamp)
        IN  /\ chain' = [chain EXCEPT ![w] = Append(chain[w], b)]
            /\ chain_file' = save_chain_to_json(chain'[w])
            /\ ret' = [ret EXCEPT ![w] = [kind |-> "block", block |-> b]]
    /\ UNCHANGED <<is_postgres, render, db, pc, lock_acquired, repairing, origin, tampered,
                   restarts, held, put, released, files, file_shares, resp, advisory_lock, call>>

\* the process that holds the ledger ends
Discard(w) ==
    /\ pc[w] = "constructed"
    /\ restarts < MaxRestarts
    /\ restarts' = restarts + 1
    /\ pc' = [pc EXCEPT ![w] = "down"]
    /\ chain' = [chain EXCEPT ![w] = <<>>]
    /\ origin' = [origin EXCEPT ![w] = "none"]
    /\ ret' = [ret EXCEPT ![w] = NoRet]
    /\ UNCHANGED <<is_postgres, render, db, chain_file, lock_acquired, repairing, tampered,
                   held, put, released, files, file_shares, resp, advisory_lock, call>>

\* a block of the file gets another payload, its stored hash left as written
TamperFileData ==
    /\ tampered = "no"
    /\ \E i \in 1..Len(chain_file.blocks) :
        chain_file' = [chain_file EXCEPT !.blocks[i].data = TamperedData]
    /\ tampered' = "file_data"
    /\ UNCHANGED <<is_postgres, render, db, pc, chain, lock_acquired, repairing, origin, ret,
                   restarts, held, put, released, files, file_shares, resp, advisory_lock, call>>

\* one character of a block's stored hash is changed in the file
TamperFileHash ==
    /\ tampered = "no"
    /\ \E i \in 1..Len(chain_file.blocks) :
        chain_file' = [chain_file EXCEPT !.blocks[i].hash = FlipChar(chain_file.blocks[i].hash)]
    /\ tampered' = "file_hash"
    /\ UNCHANGED <<is_postgres, render, db, pc, chain, lock_acquired, repairing, origin, ret,
                   restarts, held, put, released, files, file_shares, resp, advisory_lock, call>>

\* a block of the file gets another previous_hash and the hash recomputed
\* over its fields: its own hash is consistent, its link is broken
TamperFileLink ==
    /\ tampered = "no"
    /\ \E i \in 1..Len(chain_file.blocks) :
        LET d == chain_file.blocks[i]
        IN  chain_file' = [chain_file EXCEPT !.blocks[i] =
                Block(d.index, d.timestamp, d.data, FlipChar(d.previous_hash))]
    /\ tampered' = "file_link"
    /\ UNCHANGED <<is_postgres, render, db, pc, chain, lock_acquired, repairing, origin, ret,
                   restarts, held, put, released, files, file_shares, resp, advisory_lock, call>>

\* out-of-band modification of the fallback file
TamperFile ==
    \/ TamperFileData
    \/ TamperFileHash
    \/ TamperFileLink

\* a ledger kept in the fallback file only, by one process at a time, the file
\* open to modification
NextFallback ==
    \/ BlockchainInit("w1")
    \/ InitGenesis("w1")
    \/ AddBlockFile("w1")
    \/ Discard("w1")
    \/ TamperFile

SpecFallback == Init /\ [][NextFallback]_vars

(***************************** calls of the cryptographic functions *******)
\* everything but the call record
ledger_vars == <<is_postgres, render, db, chain_file, pc, chain, lock_acquired,
                 repairing, origin, ret, tampered, restarts, held, put,
                 released, files, file_shares, resp, advisory_lock>>

\* the private keys of the group, the raw keys and the IVs a wrap is called with
PrivateKeys == 1..(GroupOrder - 1)
RawKeys == 0..(KeySpace - 1)
WrapIvs == {0, 1}

\* encrypt_aes_key_with_ecc(aes_key, public key of private_key) is called; it
\* draws an ephemeral key and an IV
Wrap ==
    /\ call.op = "none"
    /\ \E aes_key \in RawKeys, private_key \in PrivateKeys,
          ephemeral_private_key \in PrivateKeys, iv \in WrapIvs :
        call' = [op |-> "encrypt_aes_key_with_ecc",
                 aes_key |-> aes_key,
                 wrapped_for |-> private_key,
                 package |-> encrypt_aes_key_with_ecc(aes_key, public_key(private_key),
                                                      ephemeral_private_key, iv)]
    /\ UNCHANGED ledger_vars

\* decrypt_aes_key_with_ecc is called on the package with some private key
Unwrap ==
    /\ call.op = "encrypt_aes_key_with_ecc"
    /\ \E private_key \in PrivateKeys :
        call' = [op |-> "decrypt_aes_key_with_ecc",
                 aes_key |-> call.aes_key,
                 wrapped_for |-> call.wrapped_for,
                 private_key |-> private_key,
                 result |-> decrypt_aes_key_with_ecc(call.package, private_key)]
    /\ UNCHANGED ledger_vars

\* the hybrid envelope alone: one wrap, then one unwrap
NextEnvelope == Wrap \/ Unwrap

SpecEnvelope == Init /\ [][NextEnvelope]_vars

\* the payloads, keys and IVs encrypt_file is called with: payloads of every
\* length up to two blocks, of bytes that are also padding bytes
MaxPayload == 4
PayloadBytes == {1, 2}
Plaintexts == UNION {[1..n -> PayloadBytes] : n \in 0..MaxPayload}
FileKeys == {0, 1, KeySpace - 1}
IvBytes == {0, ByteSpace - 1}
Blocks == [1..BlockSize -> IvBytes]

\* encrypt_file is called on a file holding plaintext; it draws an IV
Encrypt ==
    /\ call.op = "none"
    /\ \E plaintext \in Plaintexts, key \in FileKeys, iv \in Blocks :
        call' = [op |-> "encrypt_file",
                 plaintext |-> plaintext,
                 key |-> key,
                 encrypted_result |-> encrypt_file(plaintext, key, iv)]
    /\ UNCHANGED ledger_vars

\* decrypt_file is called on what encrypt_file returned, with the same key
Decrypt ==
    /\ call.op = "encrypt_file"
    /\ LET encrypted_data == call.encrypted_result.encrypted_data
           iv == call.encrypted_result.iv
           raises == decrypt_file_raises(encrypted_data, call.key, iv)
       IN  call' = [op |-> "decrypt_file",
                    plaintext |-> call.plaintext,
                    key |-> call.key,
                    raises |-> raises,
                    result |-> IF raises THEN NoContent
                               ELSE decrypt_file(encrypted_data, call.key, iv)]
    /\ UNCHANGED ledger_vars

\* the symmetric cipher alone: one encrypt_file, then one decrypt_file
NextCipher == Encrypt \/ Decrypt

SpecCipher == Init /\ [][NextCipher]_vars

(***************************** claims **************************************)
\* the constructor of worker w has returned
Constructed(w) == pc[w] \in {"validate", "release", "ready"}

\* a digest that is a stored digest with one character changed
IsFlipped(h) == Len(h) > 0 /\ h[1] = -1

\* C1: in every state of an installed ledger that no tampering touched (fresh,
\* after appends, after a restart hydrating what the appends wrote), the block
\* at position i has index i.  Violated: Genesis is never written to the table.
C1_IndexEqualsPosition ==
    \A w \in Workers :
        (pc[w] = "ready" /\ tampered = "no") =>
            \A i \in 1..Len(chain[w]) : chain[w][i].index = i - 1

\* C2: a ledger created fresh and grown by add_block in one process has, for
\* every block after the first, hash = recompute(fields) and previous_hash =
\* hash of the block before it; validate_chain() is true after every append.
C2_FreshChainValid ==
    \A w \in Workers :
        (origin[w] = "fresh" /\ Constructed(w)) =>
            /\ validate_chain(chain[w])
            /\ \A i \in 2..Len(chain[w]) :
                 /\ chain[w][i].hash =
                        <<chain[w][i].index, chain[w][i].timestamp>>
                            \o chain[w][i].data \o chain[w][i].previous_hash
                 /\ chain[w][i].previous_hash = chain[w][i - 1].hash

C2_Witness ==
    \E w \in Workers :
        /\ origin[w] = "fresh" /\ pc[w] = "ready"
        /\ Len(chain[w]) = 3 /\ ret[w].kind = "block"

\* C3: add_block on a ledger with tail T (fresh or hydrated) returns B with
\* B.index = T.index + 1 and B.previous_hash = T.hash, B is the new tail and the
\* chain is one block longer.  Violated on a hydrated ledger: index is len(chain).
C3_AppendExtendsTail ==
    \A w \in Workers :
        (ret[w].kind = "block" /\ tampered = "no") =>
            LET n == Len(chain[w])
            IN  /\ n >= 2
                /\ get_latest_block(chain[w]) = ret[w].block
                /\ ret[w].block.index = chain[w][n - 1].index + 1
                /\ ret[w].block.previous_hash = chain[w][n - 1].hash

\* C4: after a process created a fresh ledger, appended k >= 0 blocks (all
\* persisted) and ended, the ledger a new process constructs over the same
\* backend is the chain the first one held: same length, Genesis first, the same
\* index, payload, previous_hash and hash per position.  Violated for k >= 1.
C4_RestartHydratesHeldChain ==
    \A w \in Workers :
        (/\ pc[w] = "validate" /\ restarts = 1 /\ tampered = "no"
         /\ held.fresh /\ held.persisted) =>
            /\ Len(chain[w]) = Len(held.chain)
            /\ chain[w][1].index = 0
            /\ chain[w][1].data = GenesisData
            /\ \A i \in 1..Len(chain[w]) :
                 /\ chain[w][i].index = held.chain[i].index
                 /\ chain[w][i].data = held.chain[i].data
                 /\ chain[w][i].previous_hash = held.chain[i].previous_hash
                 /\ chain[w][i].hash = held.chain[i].hash

\* C5: whatever the interleaving of the add_block calls of workers whose ledgers
\* start at Genesis, a persisted row is never replaced by a row with the same
\* index and another payload, previous_hash or hash, and rows disappear only
\* when a repair clears the table.  Violated: the upsert of the second writer of
\* an index overwrites the row of the first.
C5_PersistedNeverReplaced ==
    [][(\A w \in Workers : origin[w] # "db") =>
          /\ \A i \in 1..Len(db) : \A j \in 1..Len(db') :
               db'[j].block_index = db[i].block_index =>
                   /\ db'[j].block_data = db[i].block_data
                   /\ db'[j].previous_hash = db[i].previous_hash
                   /\ db'[j].block_hash = db[i].block_hash
          /\ \/ db' = <<>>
             \/ \A i \in 1..Len(db) : RowsWithIndex(db', db[i].block_index) # {}]_vars

\* a block whose payload or previous_hash is the altered one of the table
Altered(b) ==
    \/ tampered = "data" /\ b.data = TamperedData
    \/ tampered = "previous_hash" /\ IsFlipped(b.previous_hash)

\* C6: a chain hydrated from the table that holds a block whose payload or
\* previous_hash was altered (stored hash left as written) fails
\* validate_chain(), at whatever position the block is.  Violated at position 0.
C6_AlteredRowDetected ==
    \A w \in Workers :
        (/\ Constructed(w) /\ origin[w] = "db"
         /\ \E i \in 1..Len(chain[w]) : Altered(chain[w][i])) =>
            ~validate_chain(chain[w])

\* C7: from an empty backend, the ledger created and one key record appended:
\* the block has index 1, it is the latest block and validate_chain() is true;
\* one character of its stored hash changed and the ledger reloaded in a new
\* process: validate_chain() is false.  Violated: the reloaded chain is that one
\* block, which validate_chain() never looks at.
C7_FlippedHashDetectedAfterReload ==
    \A w \in Workers :
        /\ (origin[w] = "fresh" /\ ret[w].kind = "block" /\ Len(chain[w]) = 2) =>
              /\ ret[w].block.index = 1
              /\ get_latest_block(chain[w]).index = 1
              /\ validate_chain(chain[w])
        /\ (/\ tampered = "hash" /\ held.fresh /\ held.persisted /\ Len(held.chain) = 2
            /\ Constructed(w) /\ origin[w] = "db" /\ ret[w].kind = "none"
            /\ \E i \in 1..Len(chain[w]) : IsFlipped(chain[w][i].hash)) =>
              ~validate_chain(chain[w])

\* C8: a ledger constructed when neither the table nor the fallback file holds
\* a chain is exactly one block, the Genesis block: index 0, previous_hash the
\* sentinel, and validate_chain() is true.
C8_FreshLedgerIsGenesis ==
    \A w \in Workers :
        (/\ origin[w] = "fresh"
         /\ pc[w] \in {"validate", "release"} \/ (pc[w] = "ready" /\ ret[w].kind = "none")) =>
            /\ Len(chain[w]) = 1
            /\ chain[w][1].index = 0
            /\ chain[w][1].data = GenesisData
            /\ chain[w][1].previous_hash = Sentinel
            /\ validate_chain(chain[w])

C8_Witness ==
    \E w \in Workers :
        origin[w] = "fresh" /\ pc[w] = "ready" /\ ret[w].kind = "none" /\ Len(chain[w]) = 1

C10_FailedAppendLeavesLedger ==
    [][\A w \in Workers :
          ret'[w].kind = "raised" =>
              /\ Len(chain'[w]) = Len(chain[w])
              /\ get_latest_block(chain'[w]) = get_latest_block(chain[w])]_vars

\* worker w is between an acquire_blockchain_lock that returned True and its
\* release_blockchain_lock
InGuardedSection(w) ==
    lock_acquired[w] /\ pc[w] \in {"construct", "genesis", "validate", "clear", "remove", "release"}

\* worker w runs the repair: it clears the table and constructs the ledger anew
InRepair(w) == pc[w] \in {"clear", "remove"} \/ repairing[w]

\* C11: with several workers starting on one PostgreSQL backend, at most one
\* worker at a time is between a successful acquire_blockchain_lock and its
\* release, and two workers never run the repair at the same time.  Violated:
\* without RENDER every worker that finds the chain invalid repairs, lock or not.
C11_LockExclusive ==
    is_postgres =>
        \A w \in Workers : \A v \in Workers \ {w} :
            /\ ~(InGuardedSection(w) /\ InGuardedSection(v))
            /\ ~(InRepair(w) /\ InRepair(v))

\* C12: a worker whose acquire_blockchain_lock returned False never repairs:
\* on an invalid hydrated chain it neither clears the table nor constructs the
\* ledger anew, and it serves the hydrated chain as it is.  Violated: without
\* RENDER the repair branch is taken whatever lock_acquired is.
C12_NoRepairWithoutLock ==
    \A w \in Workers :
        ~lock_acquired[w] => pc[w] \notin {"clear", "remove"} /\ ~repairing[w]

\* worker w is in startup_event after acquire_blockchain_lock returned
Bootstrapping(w) ==
    pc[w] \in {"sleep", "construct", "genesis", "validate", "clear", "remove", "release"}

\* C13: between an acquire_blockchain_lock that returned False and the end of
\* startup_event, no step of the worker writes or deletes a row of the table or
\* creates or rewrites the fallback file.  Violated: the constructor of a
\* worker without the lock creates Genesis and writes chain.json.
C13_NotAcquiredIsReadOnly ==
    [][\A w \in Workers :
          (~lock_acquired[w] /\ Bootstrapping(w) /\ pc'[w] # pc[w]) =>
              db' = db /\ chain_file' = chain_file]_vars

\* C14: when startup_event ends, normally or by an exception raised in the
\* constructor or in the repair, a worker whose acquire_blockchain_lock returned
\* True has called release_blockchain_lock, and a worker whose acquisition
\* returned False never calls it.
C14_ReleasedOnEveryExit ==
    \A w \in Workers :
        /\ (pc[w] \in {"ready", "failed"} /\ lock_acquired[w]) => released[w]
        /\ released[w] => lock_acquired[w]

C14_Witness ==
    \E w \in Workers :
        pc[w] = "failed" /\ lock_acquired[w] /\ released[w] /\ restarts = 1

\* C15: workers that start on an empty backend (no row, no fallback file)
\* and have finished startup_event before any block was appended all hold the
\* same Genesis block at position 0: same index 0, same hash.  Violated: each
\* constructor that finds nothing creates its own Genesis with its own time.
C15_OneGenesis ==
    \A w \in Workers : \A v \in Workers :
        (/\ pc[w] = "ready" /\ pc[v] = "ready"
         /\ restarts = 0 /\ db = <<>>
         /\ ret[w].kind = "none" /\ ret[v].kind = "none") =>
            /\ chain[w][1].index = 0
            /\ chain[w][1].hash = chain[v][1].hash

C17_HealthReportsInvalidChain ==
    \A w \in Workers :
        (/\ pc[w] = "ready" /\ ~validate_chain(chain[w])
         /\ resp.route = "/health" /\ resp.worker = w) =>
            /\ "blockchain_valid" \in DOMAIN resp.body
            /\ resp.body.blockchain_valid = validate_chain(chain[w])

\* C18: no operation open to a user who is neither the owner of a file nor a
\* recipient of a share of it gives that user the file's raw symmetric key:
\* every record holding a raw key in a GET /chain response, which is served
\* to any caller, the third user included, belongs to the third user.
\* Violated: upload_file stores the key, base64-encoded, in the block's data,
\* and get_blockchain returns every block's data.
C18_NoRawKeyExposed ==
    resp.route = "/chain" =>
        \A i \in 1..Len(resp.body.chain) :
            has_aes_key(resp.body.chain[i].data) =>
                resp.body.chain[i].data[2] = ThirdParty

\* C19: a download of an uploaded file by its owner returns status 200 and
\* exactly the uploaded bytes, whichever worker served the upload and serves
\* the download.  Violated: each worker looks the key up in its own in-memory
\* chain at the position block_index.
C19_OwnerDownloadReturnsUpload ==
    \A file_id \in 1..Len(files) :
        (/\ resp.route = "/download"
         /\ resp.body.file_id = file_id
         /\ resp.body.user_id = files[file_id].owner_id) =>
            /\ resp.status = 200
            /\ resp.body.content = files[file_id].content

\* C20: once a file is shared with the recipient, a download of it by the
\* recipient returns status 200 and exactly the bytes the owner uploaded,
\* whichever worker served the upload and serves the share.  Violated: the
\* worker serving the share wraps the key of the block its own chain has at
\* the position block_index.
C20_RecipientDownloadReturnsUpload ==
    \A file_id \in 1..Len(files) :
        (/\ resp.route = "/download"
         /\ resp.body.file_id = file_id
         /\ resp.body.user_id = Recipient
         /\ get_file_share(file_shares, file_id, Recipient) # NoShare) =>
            /\ resp.status = 200
            /\ resp.body.content = files[file_id].content

\* C21: unwrapping a package with the private key of the key pair whose public
\* key it was wrapped with returns the raw key that was wrapped, whatever
\* ephemeral key and IV the wrap drew.
C21_UnwrapReturnsWrappedKey ==
    (call.op = "decrypt_aes_key_with_ecc" /\ call.private_key = call.wrapped_for) =>
        call.result = call.aes_key

C21_Witness ==
    /\ call.op = "decrypt_aes_key_with_ecc"
    /\ call.private_key = call.wrapped_for
    /\ call.aes_key = KeySpace - 1

\* C22: decrypt_file applied to the ciphertext and IV encrypt_file returned,
\* with the same key, does not raise and returns the payload, the empty
\* payload and payloads that fill their blocks included.
C22_DecryptReturnsPayload ==
    call.op = "decrypt_file" =>
        /\ ~call.raises
        /\ call.result = call.plaintext

C22_Witness ==
    /\ call.op = "decrypt_file"
    /\ call.plaintext = <<>>
    /\ call.result = <<>>

\* C23: unwrapping a package with the private key of another key pair than
\* the one it was wrapped for never returns the raw key that was wrapped.
C23_OtherKeyNeverUnwraps ==
    (call.op = "decrypt_aes_key_with_ecc" /\ call.private_key # call.wrapped_for) =>
        call.result # call.aes_key

C23_Witness ==
    /\ call.op = "decrypt_aes_key_with_ecc"
    /\ call.private_key # call.wrapped_for
    /\ call.result # call.aes_key

\* C24: when the constructor runs over a table that holds rows, tampered or
\* not, load_chain_from_database returns True and the chain is one block per
\* row in ascending index order, each with the row's index and the row's
\* stored hash.  Violated: a row whose block_data is not JSON makes
\* load_blockchain_blocks raise; load_chain_from_database returns False and
\* the rows are ignored.
C24_LoadTrustsStoredHash ==
    [][\A w \in Workers :
          (pc[w] = "construct" /\ pc'[w] # "construct" /\ db # <<>>) =>
              LET rows == OrderByIndex(db)
              IN  /\ origin'[w] = "db"
                  /\ Len(chain'[w]) = Len(rows)
                  /\ \A i \in 1..Len(rows) :
                       /\ chain'[w][i].index = rows[i].block_index
                       /\ chain'[w][i].hash = rows[i].block_hash
                  /\ \A i \in 2..Len(rows) :
                       chain'[w][i - 1].index < chain'[w][i].index]_vars

\* a block of the file whose stored hash is not the hash of its fields
FileHasMismatch ==
    \E i \in 1..Len(chain_file.blocks) :
        chain_file.blocks[i].hash #
            <<chain_file.blocks[i].index, chain_file.blocks[i].timestamp>>
                \o chain_file.blocks[i].data \o chain_file.blocks[i].previous_hash

\* C25: when the constructor loads a fallback file one of whose blocks has a
\* stored hash that is not the hash of its index, timestamp, payload and
\* previous_hash, the load is rejected (create_genesis_block follows) and no
\* block of the file is in the ledger.
C25_FileMismatchRejected ==
    [][\A w \in Workers :
          (pc[w] = "down" /\ pc'[w] # "down" /\ chain_file.exists /\ FileHasMismatch) =>
              /\ pc'[w] = "init_genesis"
              /\ origin'[w] = "rejected"
              /\ chain'[w] = <<>>]_vars

C25_Witness ==
    /\ pc["w1"] = "init_genesis"
    /\ origin["w1"] = "rejected"
    /\ tampered \in {"file_data", "file_hash"}
    /\ Len(chain_file.blocks) = 3
    /\ FileHasMismatch

\* C30: a ledger whose constructor rejected the fallback file, for a stored
\* hash that does not match or for a broken previous_hash link between blocks
\* whose own hashes are consistent, is exactly one fresh Genesis block and
\* validate_chain() is true.  Violated in the second case: load_chain_from_json
\* has already set self.chain to the file's blocks when validate_chain() fails,
\* and create_genesis_block appends Genesis to them.
C30_RejectedFileLeavesFreshGenesis ==
    \A w \in Workers :
        (pc[w] = "constructed" /\ origin[w] = "rejected" /\ ret[w].kind = "none") =>
            /\ Len(chain[w]) = 1
            /\ chain[w][1].index = 0
            /\ chain[w][1].data = GenesisData
            /\ chain[w][1].previous_hash = Sentinel
            /\ validate_chain(chain[w])

\* worker w is at the end of startup_event's try block
EndOfBootstrap(w) == pc[w] = "release"

\* exactly one Genesis block: index 0, previous_hash the sentinel
IsGenesisOnly(c) ==
    /\ Len(c) = 1
    /\ c[1].index = 0
    /\ c[1].data = GenesisData
    /\ c[1].previous_hash = Sentinel

\* C26: a worker that holds the lock never ends its bootstrap with a chain
\* failing validate_chain(), and when it has repaired an invalid hydrated
\* chain its ledger at the end of the bootstrap is exactly one Genesis block
\* (the rows it found were all deleted by clear_blockchain_blocks).
C26_RepairLeavesFreshGenesis ==
    \A w \in Workers :
        (EndOfBootstrap(w) /\ lock_acquired[w]) =>
            /\ validate_chain(chain[w])
            /\ repairing[w] => IsGenesisOnly(chain[w])

\* the range of indices asked for: negative, inside and past the tail
LookupRange == (0 - 1)..(MaxChain + 2)

\* the positions of chain c whose block has index field i
HasIndex(c, i) == {k \in 1..Len(c) : c[k].index = i}

\* C27: for every index i and every ledger, get_block_by_index(i) is a block
\* whose index field is i when the chain has such a block, and None when it
\* has none, a negative i and an i past the tail included.
C27_LookupReturnsBlockOfThatIndex ==
    \A w \in Workers : \A i \in LookupRange :
        LET found == get_block_by_index(chain[w], i) IN
        IF HasIndex(chain[w], i) = {}
        THEN found = NoBlock
        ELSE found # NoBlock /\ found.index = i

\* the row of block b is in table t
RowOf(t, b) ==
    \E i \in 1..Len(t) : t[i].block_index = b.index /\ t[i].block_hash = b.hash

\* C28: when the step after add_block fails in an upload or a share (the file
\* record or the share record is not written), the append is not undone: the
\* chain is the former chain with the new block at its tail, one block
\* longer, and the block's row is in the table.
C28_FailureKeepsAppendedBlock ==
    [][\A w \in Workers :
          (UploadRaises(w) \/ ShareRaises(w)) =>
              /\ Len(chain'[w]) = Len(chain[w]) + 1
              /\ SubSeq(chain'[w], 1, Len(chain[w])) = chain[w]
              /\ get_latest_block(chain'[w]) = ret'[w].block
              /\ RowOf(db', ret'[w].block)
              /\ Len(db') >= Len(db)]_vars

C28_Witness ==
    /\ resp.route = "/share"
    /\ resp.status = 500
    /\ resp.worker = "w1"
    /\ file_shares = <<>>
    /\ ret["w1"].kind = "block"
    /\ ret["w1"].block.data[1] = 4
    /\ get_latest_block(chain["w1"]) = ret["w1"].block
    /\ RowOf(db, ret["w1"].block)

\* every worker's ledger was created on the empty table: none was hydrated
\* from rows and no worker process has been restarted
BootstrappedAlike == restarts = 0 /\ \A w \in Workers : origin[w] # "db"

\* C29: whatever the interleaving of the add_block calls of two workers that
\* bootstrapped from the same backend state, the rows in ascending index
\* order are hash-linked (each row's previous_hash is the stored hash of the
\* row before it) and the ledger hydrated from them passes validate_chain().
C29_PersistedRowsHashLinked ==
    BootstrappedAlike =>
        LET rows == OrderByIndex(db)
        IN  /\ \A i \in 2..Len(rows) :
                 rows[i].previous_hash = rows[i - 1].block_hash
            /\ validate_chain(hydrate(load_blockchain_blocks(db)))
====
